---- MODULE Spec2Model ----
(***************************************************************************)
(* Model of streamlit_app.py: the inventory aging report.                  *)
(*                                                                         *)
(* The program is a Streamlit script.  Every run executes the whole script *)
(* top to bottom: it fetches the (cached) inventory table, classifies each *)
(* SKU into an aging bucket with pd.cut, builds the count table behind the *)
(* bar chart, reads the chart's selection state and renders either the     *)
(* selection prompt, the detail of the selected bucket, or the "no data"   *)
(* notice.  A user selection on the chart triggers one rerun               *)
(* (on_select="rerun").                                                    *)
(*                                                                         *)
(* Units: money is kept in centavos (Costo_Unitario 100.00 is 10000),      *)
(* Margen_Utilidad_Porcentaje in hundredths of a percent (33.33 is 3333).  *)
(* Strings that the script formats or searches are sequences of            *)
(* one-character strings.  The columns Cliente_Mas_Reciente and            *)
(* Fecha_Ultima_Compra take no part in any computation of the script and   *)
(* are left out of the rows.                                               *)
(***************************************************************************)
EXTENDS Integers, Sequences, FiniteSets

VARIABLES cache, df_inventario, df_conteo, event,
          subheader, metricas, tabla, mensajes

vars == <<cache, df_inventario, df_conteo, event,
          subheader, metricas, tabla, mensajes>>

(* ---------------- bounds ---------------- *)

\* largest number of SKUs in the inventory table
MaxSkus == 2

\* largest number of points carried by one selection event
MaxPuntos == 2

\* largest Dias_Ultima_Factura tried by the classifier specification
MaxDias == 800

(* ---------------- static configuration ---------------- *)

\* bins = [0, 90, 180, 365, 730, float('inf')]: the finite edges; the last
\* edge, +inf, is above every integer and is kept implicit.
bins == <<0, 90, 180, 365, 730>>

\* number of edges of bins, the +inf edge included
NumBins == Len(bins) + 1

labels == <<"0-3 Meses (Activo)", "3-6 Meses (Monitoreo)", "6-12 Meses (Riesgo)",
            "12-24 Meses (Obsoleto)", "+24 Meses (Crítico)">>

\* a label that is not one of the five categories
EtiquetaAjena == "Crítico"

\* the x values a selection point may carry
Etiquetas == {labels[i] : i \in 1..Len(labels)} \cup {EtiquetaAjena}

\* the characters of the strings the script searches in
Chars(s) ==
    CASE s = "0-3 Meses (Activo)" -> <<"0", "-", "3", " ", "M", "e", "s", "e", "s", " ", "(", "A", "c", "t", "i", "v", "o", ")">>
      [] s = "3-6 Meses (Monitoreo)" -> <<"3", "-", "6", " ", "M", "e", "s", "e", "s", " ", "(", "M", "o", "n", "i", "t", "o", "r", "e", "o", ")">>
      [] s = "6-12 Meses (Riesgo)" -> <<"6", "-", "1", "2", " ", "M", "e", "s", "e", "s", " ", "(", "R", "i", "e", "s", "g", "o", ")">>
      [] s = "12-24 Meses (Obsoleto)" -> <<"1", "2", "-", "2", "4", " ", "M", "e", "s", "e", "s", " ", "(", "O", "b", "s", "o", "l", "e", "t", "o", ")">>
      [] s = "+24 Meses (Crítico)" -> <<"+", "2", "4", " ", "M", "e", "s", "e", "s", " ", "(", "C", "r", "í", "t", "i", "c", "o", ")">>
      [] s = "Crítico" -> <<"C", "r", "í", "t", "i", "c", "o">>
      [] s = "Activo" -> <<"A", "c", "t", "i", "v", "o">>

\* Python's `sub in s` on strings: sub occurs in s as a contiguous substring
Contains(sub, s) ==
    LET a == Chars(sub)
        b == Chars(s)
    IN \E k \in 0..(Len(b) - Len(a)) : \A j \in 1..Len(a) : b[k + j] = a[j]

(* ---------------- number helpers ---------------- *)

\* The integers that rounding the double nearest to n / d can give
\* (n >= 0, d > 0).  The script computes in IEEE doubles: off a tie the
\* result is the nearest integer; when n / d is exactly halfway between two
\* integers the double that stands for it lies on one side or the other of
\* the tie (or on it), and the rounding goes to the neighbour on that side,
\* which integer arithmetic cannot tell: both neighbours are outcomes.
Redondeos(n, d) ==
    LET q == n \div d
        r == n % d
    IN IF 2 * r < d THEN {q}
       ELSE IF 2 * r > d THEN {q + 1}
       ELSE {q, q + 1}

Abs(n) == IF n < 0 THEN -n ELSE n

Digito(k) == CASE k = 0 -> "0" [] k = 1 -> "1" [] k = 2 -> "2" [] k = 3 -> "3"
               [] k = 4 -> "4" [] k = 5 -> "5" [] k = 6 -> "6" [] k = 7 -> "7"
               [] k = 8 -> "8" [] k = 9 -> "9"

\* decimal digits of a natural number, with "," between groups of three when
\* sep is TRUE (the "," option of Python's format specification)
RECURSIVE Digitos(_, _)
Digitos(n, sep) ==
    IF n < 10 THEN <<Digito(n)>>
    ELSE IF ~sep THEN Append(Digitos(n \div 10, sep), Digito(n % 10))
    ELSE IF n < 1000 THEN Digitos(n, FALSE)
    ELSE Digitos(n \div 1000, TRUE)
           \o <<",", Digito((n \div 100) % 10), Digito((n \div 10) % 10), Digito(n % 10)>>

\* format(x, ".2f") or format(x, ",.2f") of a double x already rounded to
\* hundredths: neg is the sign bit of x (a negative x that rounds to zero
\* keeps its sign, "-0.00")
Fixed2(neg, a, sep) ==
    (IF neg THEN <<"-">> ELSE <<>>)
       \o Digitos(a \div 100, sep) \o <<".", Digito((a \div 10) % 10), Digito(a % 10)>>

RECURSIVE SumSeq(_)
SumSeq(s) == IF s = <<>> THEN 0 ELSE Head(s) + SumSeq(Tail(s))

\* the sequence s in increasing order of clave[i], the key of s[i]; elements
\* of equal key keep their relative position (stable)
SortSeq(s, clave) ==
    LET Rank(i) == Cardinality({j \in 1..Len(s) :
                        clave[j] < clave[i] \/ (clave[j] = clave[i] /\ j < i)}) + 1
    IN [k \in 1..Len(s) |-> s[CHOOSE i \in 1..Len(s) : Rank(i) = k]]

(* ---------------- the inventory table ---------------- *)

\* np.random.randint(low, high): integers of [low, high)
RandintInclusive(low, high) == low..high
Randint(low, high) == low..(high - 1)

\* the Dias_Ultima_Factura values tried in tables of several SKUs
DiasMuestra == {10, 89, 90, 200, 729, 730, 800}

\* (Existencia_Actual, Costo_Unitario, Precio_Venta_Unitario) combinations
Perfiles == {[Existencia_Actual |-> 5, Costo_Unitario |-> 10000, Precio_Venta_Unitario |-> 15000],
             [Existencia_Actual |-> 2, Costo_Unitario |-> 5000, Precio_Venta_Unitario |-> 6000]}

\* np.round((Utilidad_Unitaria / Precio_Venta_Unitario) * 100, 2) of a
\* profile, in hundredths of a percent; a margin of -0.0 is held as 0 in a
\* row whose Utilidad_Unitaria is negative
Margenes(p) ==
    LET u == p.Precio_Venta_Unitario - p.Costo_Unitario
    IN {IF u < 0 THEN -m ELSE m : m \in Redondeos(Abs(u) * 10000, p.Precio_Venta_Unitario)}

\* one row of the table built by generate_data, derived columns included
\* (Utilidad_Unitaria to the nearest centavo)
Fila(i, dias, p, margen) ==
    [SKU |-> i,
     Dias_Ultima_Factura |-> dias,
     Existencia_Actual |-> p.Existencia_Actual,
     Costo_Unitario |-> p.Costo_Unitario,
     Precio_Venta_Unitario |-> p.Precio_Venta_Unitario,
     Utilidad_Unitaria |-> p.Precio_Venta_Unitario - p.Costo_Unitario,
     Margen_Utilidad_Porcentaje |-> margen]

\* the tables of num_skus rows whose days are drawn from dias
Tablas(num_skus, dias) ==
    LET crudos == {<<d, p, m>> \in dias \X Perfiles \X (UNION {Margenes(p) : p \in Perfiles}) :
                      m \in Margenes(p)}
    IN {[i \in 1..num_skus |-> Fila(i, f[i][1], f[i][2], f[i][3])] : f \in [1..num_skus -> crudos]}

\* generate_data(num_skus): days drawn by np.random.randint(0, 730)
generate_data(num_skus) == Tablas(num_skus, DiasMuestra \cap Randint(0, 730))

(* ---------------- Aging Classifier ---------------- *)

\* bins.searchsorted(x, side="right"): number of edges <= x
Searchsorted(x) == Cardinality({i \in 1..Len(bins) : bins[i] <= x})

\* pd.cut(x, bins, labels, include_lowest=True, right=True): the wrong side
CutRight(x) ==
    LET ids == IF x = bins[1] THEN 1 ELSE Cardinality({i \in 1..Len(bins) : bins[i] < x})
    IN IF ids = 0 \/ ids = NumBins THEN "NaN" ELSE labels[ids]

\* pd.cut(x, bins, labels, include_lowest=True, right=False) of one value
Cut(x) ==
    LET ids == IF x = bins[1] THEN 1 ELSE Searchsorted(x)
    IN IF ids = 0 \/ ids = NumBins THEN "NaN" ELSE labels[ids]

\* df_inventario['Categoria_Antiguedad'] = pd.cut(...)
Clasificar(df) ==
    [i \in 1..Len(df) |->
        [SKU |-> df[i].SKU,
         Dias_Ultima_Factura |-> df[i].Dias_Ultima_Factura,
         Existencia_Actual |-> df[i].Existencia_Actual,
         Costo_Unitario |-> df[i].Costo_Unitario,
         Precio_Venta_Unitario |-> df[i].Precio_Venta_Unitario,
         Utilidad_Unitaria |-> df[i].Utilidad_Unitaria,
         Margen_Utilidad_Porcentaje |-> df[i].Margen_Utilidad_Porcentaje,
         Categoria_Antiguedad |-> Cut(df[i].Dias_Ultima_Factura)]]

(* ---------------- Aggregator ---------------- *)

\* position of a label in the ordered categories
Codigo(c) == CHOOSE i \in 1..Len(labels) : labels[i] = c

\* number of rows of df classified as c
Cuenta(df, c) == Cardinality({i \in 1..Len(df) : df[i].Categoria_Antiguedad = c})

\* value_counts that keeps only the categories that occur
ValueCountsObserved(df) ==
    LET todas == [i \in 1..Len(labels) |->
                    [Categoria_Antiguedad |-> labels[i], Cantidad_SKUs |-> Cuenta(df, labels[i])]]
        presentes == SelectSeq(todas, LAMBDA r : r.Cantidad_SKUs > 0)
    IN SortSeq(presentes, [i \in 1..Len(presentes) |-> -presentes[i].Cantidad_SKUs])

\* Series.value_counts().reset_index() of a categorical column: one row for
\* every category, the ones with no record included, by decreasing count
ValueCounts(df) ==
    LET todas == [i \in 1..Len(labels) |->
                    [Categoria_Antiguedad |-> labels[i], Cantidad_SKUs |-> Cuenta(df, labels[i])]]
    IN SortSeq(todas, [i \in 1..Len(todas) |-> -todas[i].Cantidad_SKUs])

\* the count table left in value_counts order
SinOrdenar(conteo) == conteo

\* df_conteo.sort_values('Categoria_Antiguedad') on the ordered categorical
SortValuesCategoria(conteo) ==
    SortSeq(conteo, [i \in 1..Len(conteo) |-> Codigo(conteo[i].Categoria_Antiguedad)])

Conteo(df) == SortValuesCategoria(ValueCounts(df))

(* ---------------- Selection-Driven Detail View ---------------- *)

\* the x values tried in selections of several points: the first, a middle
\* and the last category, and the label that is not a category
EtiquetasSeleccion == {labels[1], labels[3], labels[5], EtiquetaAjena}

\* the selection lists a rerun may carry: event["selection"]["points"]
Puntos == UNION {[1..n -> {[x |-> e] : e \in EtiquetasSeleccion}] : n \in 0..MaxPuntos}

\* a guard that asks for more than one point
HaySeleccionVarios(points) == Len(points) > 1

\* if event and "selection" in event and event["selection"]["points"]
HaySeleccion(points) == points # <<>>

\* the x of the last point instead of the first
CategoriaUltimoPunto(points) == points[Len(points)].x

\* categoria_seleccionada = event["selection"]["points"][0]["x"]
CategoriaSeleccionada(points) == points[1].x

\* a filter that accepts every category whose label contains c
FiltrarContiene(df, c) == SelectSeq(df, LAMBDA r : Contains(c, r.Categoria_Antiguedad))

\* df_inventario[df_inventario['Categoria_Antiguedad'] == categoria_seleccionada]
\* (== against a value that is not a category is False on every row)
FiltrarCategoria(df, c) == SelectSeq(df, LAMBDA r : r.Categoria_Antiguedad = c)

\* the investment without the stock factor
InversionSinExistencia(det) ==
    LET total == SumSeq([i \in 1..Len(det) |-> det[i].Costo_Unitario])
    IN <<"$">> \o Fixed2(total < 0, Abs(total), TRUE)

\* f"${(df_detalle['Existencia_Actual'] * df_detalle['Costo_Unitario']).sum():,.2f}"
InversionTotal(det) ==
    LET total == SumSeq([i \in 1..Len(det) |->
                            det[i].Existencia_Actual * det[i].Costo_Unitario])
    IN <<"$">> \o Fixed2(total < 0, Abs(total), TRUE)

\* f"{df_detalle['Margen_Utilidad_Porcentaje'].mean():.2f}%"  (det not
\* empty): the strings the formatting of the double mean can give.  The
\* digits are those of the nearest hundredth, either neighbour on an exact
\* tie.  The sign is that of the mean; when the exact sum is zero the double
\* sum is +0.0 if every margin is +0.0, and otherwise a zero or a rounding
\* residue of either sign.
MargenPromedio(det) ==
    LET suma == SumSeq([i \in 1..Len(det) |-> det[i].Margen_Utilidad_Porcentaje])
        ceros == \A i \in 1..Len(det) : /\ det[i].Margen_Utilidad_Porcentaje = 0
                                        /\ det[i].Utilidad_Unitaria >= 0
        signos == IF suma < 0 THEN {TRUE}
                  ELSE IF suma > 0 \/ ceros THEN {FALSE}
                  ELSE {TRUE, FALSE}
    IN {Fixed2(neg, m, FALSE) \o <<"%">> :
            neg \in signos, m \in Redondeos(Abs(suma), Len(det))}

\* df_detalle[columnas_display]
ColumnasDisplay(det) ==
    [i \in 1..Len(det) |->
        [SKU |-> det[i].SKU,
         Existencia_Actual |-> det[i].Existencia_Actual,
         Costo_Unitario |-> det[i].Costo_Unitario,
         Precio_Venta_Unitario |-> det[i].Precio_Venta_Unitario,
         Utilidad_Unitaria |-> det[i].Utilidad_Unitaria,
         Margen_Utilidad_Porcentaje |-> det[i].Margen_Utilidad_Porcentaje,
         Dias_Ultima_Factura |-> det[i].Dias_Ultima_Factura]]

\* the rows by increasing days
SortValuesDiasAscendente(det) ==
    SortSeq(det, [i \in 1..Len(det) |-> det[i].Dias_Ultima_Factura])

\* .sort_values('Dias_Ultima_Factura', ascending=False)
SortValuesDias(det) ==
    SortSeq(det, [i \in 1..Len(det) |-> -det[i].Dias_Ultima_Factura])

\* an else where the script has an elif
InsightsElse(c) ==
    IF Contains("Crítico", c) THEN <<"error_accion_requerida">>
    ELSE <<"success_estado_optimo">>

\* Insights condicionales: st.error / st.success
Insights(c) ==
    IF Contains("Crítico", c) THEN <<"error_accion_requerida">>
    ELSE IF Contains("Activo", c) THEN <<"success_estado_optimo">>
    ELSE <<>>

\* LÓGICA DE DETALLE: what one run of the script can render below the chart
Detalle(df, points) ==
    IF HaySeleccion(points)
    THEN LET c == CategoriaSeleccionada(points)
             df_detalle == FiltrarCategoria(df, c)
         IN IF df_detalle # <<>>
            THEN {[subheader |-> <<c>>,
                   metricas |-> <<[skus |-> Len(df_detalle),
                                   inversion |-> InversionTotal(df_detalle),
                                   margen |-> margen]>>,
                   tabla |-> SortValuesDias(ColumnasDisplay(df_detalle)),
                   mensajes |-> Insights(c)] : margen \in MargenPromedio(df_detalle)}
            ELSE {[subheader |-> <<c>>,
                   metricas |-> <<>>,
                   tabla |-> <<>>,
                   mensajes |-> <<"info_sin_datos">>]}
    ELSE {[subheader |-> <<>>,
           metricas |-> <<>>,
           tabla |-> <<>>,
           mensajes |-> <<"info_selecciona">>]}

(* ---------------- the script as a state machine ---------------- *)

\* one run of the script on the cached table with the given selection
Script(datos, points) ==
    LET df == Clasificar(datos)
    IN \E r \in Detalle(df, points) :
        /\ df_inventario' = df
        /\ df_conteo' = Conteo(df)
        /\ event' = points
        /\ subheader' = r.subheader
        /\ metricas' = r.metricas
        /\ tabla' = r.tabla
        /\ mensajes' = r.mensajes

\* the state after the first run of a session: no selection yet
PrimerRun(datos) ==
    LET df == Clasificar(datos)
    IN \E r \in Detalle(df, <<>>) :
        /\ cache = datos
        /\ df_inventario = df
        /\ df_conteo = Conteo(df)
        /\ event = <<>>
        /\ subheader = r.subheader
        /\ metricas = r.metricas
        /\ tabla = r.tabla
        /\ mensajes = r.mensajes

\* st.plotly_chart(..., on_select="rerun"): a selection change reruns the
\* script; st.cache_data hands back the same table
Rerun(points) ==
    /\ Script(cache, points)
    /\ UNCHANGED cache

\* a click on a bar carries one point; clearing the selection carries none
Clics == UNION {[1..n -> {[x |-> e] : e \in Etiquetas}] : n \in 0..1}

Next == \E points \in Clics : Rerun(points)

\* any record collection of the store, up to MaxSkus rows
Init == \E n \in 0..MaxSkus : \E datos \in Tablas(n, DiasMuestra) : PrimerRun(datos)

Spec == Init /\ [][Next]_vars

\* one record, every day count of 0..MaxDias
InitClasificar == \E datos \in Tablas(1, 0..MaxDias) : PrimerRun(datos)

SpecClasificar == InitClasificar /\ [][Next]_vars

\* the built-in data source
InitGenerado == \E n \in 0..MaxSkus : \E datos \in generate_data(n) : PrimerRun(datos)

SpecGenerado == InitGenerado /\ [][Next]_vars

\* box and lasso selections carry several points
NextSeleccion == \E points \in Puntos : Rerun(points)

\* tables of one profile and two day counts, every selection list
InitSeleccion ==
    \E n \in 0..MaxSkus :
        \E datos \in {t \in Tablas(n, {10, 800}) :
                        \A i \in 1..n : t[i].Existencia_Actual = 5} : PrimerRun(datos)

SpecSeleccion == InitSeleccion /\ [][NextSeleccion]_vars

(* ---------------- properties ---------------- *)

\* the views of the interaction
EsIdle == mensajes = <<"info_selecciona">>
EsSinDatos == mensajes = <<"info_sin_datos">>
EsDetalle == metricas # <<>>

\* the rows of df_inventario whose aging category is c
Coinciden(c) == {i \in 1..Len(df_inventario) : df_inventario[i].Categoria_Antiguedad = c}

\* C1: every non-negative day count d is given exactly one of the five aging
\* categories, and the half-open range [lo, hi) of that category contains d;
\* 89 is "0-3", 90 is "3-6", 729 is "12-24" and 730 is "+24".
C1_ClasificacionEnRango ==
    LET lo == <<0, 90, 180, 365, 730>>
        hi == <<90, 180, 365, 730>>
    IN \A i \in 1..Len(df_inventario) :
        LET d == df_inventario[i].Dias_Ultima_Factura
            c == df_inventario[i].Categoria_Antiguedad
            ks == {k \in 1..5 : labels[k] = c}
        IN /\ Cardinality(ks) = 1
           /\ \A k \in ks : lo[k] <= d /\ (k < 5 => d < hi[k])
           /\ (d = 89 => c = "0-3 Meses (Activo)")
           /\ (d = 90 => c = "3-6 Meses (Monitoreo)")
           /\ (d = 729 => c = "12-24 Meses (Obsoleto)")
           /\ (d = 730 => c = "+24 Meses (Crítico)")

C1_Witness ==
    \E i \in 1..Len(df_inventario) :
        /\ df_inventario[i].Dias_Ultima_Factura = 730
        /\ df_inventario[i].Categoria_Antiguedad = "+24 Meses (Crítico)"

\* C2: the rows of the count table appear in the fixed five-category
\* sequence, never by count or alphabetically, and their counts add up to the
\* number of records.
C2_OrdenFijoYSuma ==
    /\ \A i, j \in 1..Len(df_conteo) :
          i < j => \E a, b \in 1..5 : /\ a < b
                                      /\ labels[a] = df_conteo[i].Categoria_Antiguedad
                                      /\ labels[b] = df_conteo[j].Categoria_Antiguedad
    /\ SumSeq([i \in 1..Len(df_conteo) |-> df_conteo[i].Cantidad_SKUs]) = Len(cache)

C2_Witness ==
    /\ Len(cache) = MaxSkus
    /\ \E i, j \in 1..Len(df_conteo) :
          i < j /\ df_conteo[i].Cantidad_SKUs < df_conteo[j].Cantidad_SKUs

\* C3 as stated: a category has a row in the count table if and only if at
\* least one record is classified into it.
C3_SoloCategoriasPresentes ==
    \A k \in 1..5 :
        (\E i \in 1..Len(df_conteo) : df_conteo[i].Categoria_Antiguedad = labels[k])
            <=> Coinciden(labels[k]) # {}

\* C3 amended: the count table has exactly one row for each of the five
\* categories, and the row's count is the number of records classified into
\* the category, 0 when there is none.
C3_FilaPorCategoria ==
    /\ Len(df_conteo) = 5
    /\ \A k \in 1..5 :
          \E i \in 1..Len(df_conteo) :
              /\ df_conteo[i].Categoria_Antiguedad = labels[k]
              /\ df_conteo[i].Cantidad_SKUs = Cardinality(Coinciden(labels[k]))

C3_Witness ==
    /\ Len(cache) = 2
    /\ cache[1].Dias_Ultima_Factura = 10
    /\ cache[2].Dias_Ultima_Factura = 800
    /\ [i \in 1..Len(df_conteo) |-> df_conteo[i].Cantidad_SKUs] = <<1, 0, 0, 0, 1>>

\* C4: when no record has the selected label as its aging category (empty
\* table, one of the five labels without records, or a label that is not one
\* of the five), the view is the "no data" notice and no metric and no
\* insight message is produced.
C4_SinDatos ==
    (event # <<>> /\ Coinciden(event[1].x) = {}) =>
        /\ mensajes = <<"info_sin_datos">>
        /\ metricas = <<>>
        /\ tabla = <<>>

C4_Witness ==
    /\ event # <<>>
    /\ event[1].x = EtiquetaAjena
    /\ Coinciden("+24 Meses (Crítico)") # {}
    /\ EsSinDatos

\* C5: the detail rows are exactly the records whose aging category is the
\* selected one, in non-increasing order of days since the last invoice, and
\* the reported SKU count is the number of those rows.
C5_FilasDelDetalle ==
    event # <<>> =>
        /\ {tabla[k].SKU : k \in 1..Len(tabla)}
              = {df_inventario[i].SKU : i \in Coinciden(event[1].x)}
        /\ Len(tabla) = Cardinality(Coinciden(event[1].x))
        /\ \A k \in 1..Len(tabla) :
              \E i \in Coinciden(event[1].x) :
                  /\ df_inventario[i].SKU = tabla[k].SKU
                  /\ df_inventario[i].Dias_Ultima_Factura = tabla[k].Dias_Ultima_Factura
        /\ \A k \in 1..(Len(tabla) - 1) :
              tabla[k].Dias_Ultima_Factura >= tabla[k + 1].Dias_Ultima_Factura
        /\ (EsDetalle => metricas[1].skus = Len(tabla))

C5_Witness ==
    /\ EsDetalle
    /\ Len(tabla) >= 2
    /\ tabla[1].Dias_Ultima_Factura > tabla[2].Dias_Ultima_Factura
    /\ tabla[1].SKU > tabla[2].SKU

\* C6: when the selected category has a matching record, the reported total
\* investment is the sum of current_stock * unit_cost over exactly the
\* matching records; for the records (10 days, 5, 100.00) and
\* (800 days, 2, 50.00) the "+24" selection reports 100.00.
C6_InversionTotal ==
    EsDetalle =>
        /\ metricas[1].inversion =
              <<"$">> \o Fixed2(FALSE, SumSeq([i \in 1..Len(df_inventario) |->
                            IF i \in Coinciden(event[1].x)
                            THEN df_inventario[i].Existencia_Actual * df_inventario[i].Costo_Unitario
                            ELSE 0]), TRUE)
        /\ ( /\ Len(cache) = 2
             /\ cache[1].Dias_Ultima_Factura = 10
             /\ cache[1].Existencia_Actual = 5 /\ cache[1].Costo_Unitario = 10000
             /\ cache[2].Dias_Ultima_Factura = 800
             /\ cache[2].Existencia_Actual = 2 /\ cache[2].Costo_Unitario = 5000
             /\ event[1].x = "+24 Meses (Crítico)"
             => metricas[1].inversion = <<"$", "1", "0", "0", ".", "0", "0">> )

C6_Witness ==
    /\ EsDetalle
    /\ Len(cache) = 2
    /\ cache[1].Dias_Ultima_Factura = 10 /\ cache[1].Existencia_Actual = 5
    /\ cache[2].Dias_Ultima_Factura = 800 /\ cache[2].Existencia_Actual = 2
    /\ event[1].x = "+24 Meses (Crítico)"
    /\ metricas[1].inversion = <<"$", "1", "0", "0", ".", "0", "0">>

\* C7: when the selected category has a matching record, the insight is the
\* action-required warning exactly for "+24", the success message exactly
\* for "0-3", and nothing for the three middle categories; the two messages
\* never appear together.
C7_Insights ==
    EsDetalle =>
        LET c == event[1].x
            aviso == \E k \in 1..Len(mensajes) : mensajes[k] = "error_accion_requerida"
            exito == \E k \in 1..Len(mensajes) : mensajes[k] = "success_estado_optimo"
        IN /\ aviso <=> c = "+24 Meses (Crítico)"
           /\ exito <=> c = "0-3 Meses (Activo)"
           /\ ~(aviso /\ exito)
           /\ c \in {"3-6 Meses (Monitoreo)", "6-12 Meses (Riesgo)", "12-24 Meses (Obsoleto)"}
                 => mensajes = <<>>

C7_Witness ==
    /\ EsDetalle
    /\ event[1].x = "6-12 Meses (Riesgo)"
    /\ mensajes = <<>>

\* C8: the interaction starts in Idle, and every selection event carrying a
\* category moves the view, from Idle or from a shown detail, to the detail
\* of that event's category, replacing what was shown before.
C8_DetalleDeLaUltimaSeleccion ==
    /\ EsIdle /\ subheader = <<>> /\ metricas = <<>> /\ tabla = <<>>
    /\ [][event' # <<>> =>
            /\ ~EsIdle'
            /\ subheader' = <<event'[1].x>>
            /\ {tabla'[k].SKU : k \in 1..Len(tabla')}
                  = {df_inventario'[i].SKU :
                        i \in {j \in 1..Len(df_inventario') :
                                  df_inventario'[j].Categoria_Antiguedad = event'[1].x}}
            /\ (EsDetalle' <=> tabla' # <<>>)]_vars

C8_Witness ==
    /\ Len(event) = 2
    /\ event[1].x = "+24 Meses (Crítico)"
    /\ event[2].x = "0-3 Meses (Activo)"
    /\ subheader = <<"+24 Meses (Crítico)">>
    /\ EsDetalle
    /\ Coinciden("0-3 Meses (Activo)") # {}

\* C9 as stated: once a detail has been shown, no later rerun brings back the
\* Idle prompt.
C9_SinRegresoAIdle == [][~EsIdle => ~EsIdle']_vars

\* C9 amended: once a detail has been shown, a rerun brings back the Idle
\* prompt exactly when its selection carries no points.
C9_IdleSoloSinPuntos == [][~EsIdle => (EsIdle' <=> event' = <<>>)]_vars

C9_Witness ==
    /\ ~EsIdle
    /\ Len(event) = 1
    /\ subheader = <<event[1].x>>

\* C10: with the built-in data source no record is classified as "+24", the
\* action-required warning is never emitted, and a selection of "+24" always
\* ends in the "no data" notice.
C10_SinCriticoEnDatosGenerados ==
    /\ Coinciden("+24 Meses (Crítico)") = {}
    /\ \A k \in 1..Len(mensajes) : mensajes[k] # "error_accion_requerida"
    /\ (event # <<>> /\ event[1].x = "+24 Meses (Crítico)") => EsSinDatos

C10_Witness ==
    /\ event # <<>>
    /\ event[1].x = "+24 Meses (Crítico)"
    /\ \E i \in 1..Len(df_inventario) : df_inventario[i].Dias_Ultima_Factura = 729
    /\ EsSinDatos

====
